---- MODULE Spec2Model ----
(***************************************************************************)
(* Model of sptest.py: a script that resolves its configuration from the   *)
(* command line or from a JSON file, runs a shell command `runs` times     *)
(* (sequentially, or in parallel threads started `pause` seconds apart),   *)
(* and prints timing statistics.                                           *)
(***************************************************************************)
EXTENDS Integers, Sequences, FiniteSets, TLC

VARIABLES
    argv,       \* cmdl_params, the tokens of sys.argv[1:], while __init__ runs
    file,       \* what the path named on the command line holds
    pc,         \* position of the main flow
    opts,       \* (opt, value) pairs still to be processed by the option loop
    args,       \* positional arguments returned by getopt
    src,        \* the (opt, value) list the option loop is started with
    fromFile,   \* TRUE once opts was replaced by the items of the JSON file
    helpOpt,    \* getopt recognised -h/--help as an option of the command line
    command,    \* self.command
    runs,       \* self.runs
    pause,      \* self.pause
    mode_prl,   \* self.mode_prl
    timings,    \* self.timings
    i,          \* loop variable of execute()
    run,        \* per iteration: progress of run_command(i) and its locals
    launched,   \* per iteration: how many times the command was launched
    started,    \* per iteration: clock value at threads[i].start()
    now,        \* the clock read by datetime.now() and obeyed by sleep()
    wake,       \* clock value at which the current sleep() returns
    sleeps,     \* number of sleep() calls made by execute()
    usage,      \* help_text was printed by the -h/--help branch
    report,     \* the statistics printed by execute()
    exitcode    \* process exit status, -1 while the process is alive

vars == <<argv, file, pc, opts, args, src, fromFile, helpOpt, command, runs,
          pause, mode_prl, timings, i, run, launched, started, now, wake,
          sleeps, usage, report, exitcode>>

(***************************************************************************)
(* Bounds of the model.                                                    *)
(***************************************************************************)
MaxOpts == 2    \* options on the command line
MaxRuns == 2    \* execute() is explored for runs <= MaxRuns
MaxTime == 3    \* the clock stops advancing here
MaxLen  == 5    \* records in a list given to the statistics directly
MaxDur  == 2    \* longest duration in such a list

(***************************************************************************)
(* Program constants.                                                      *)
(***************************************************************************)
DEFAULT_RUNS  == 8
DEFAULT_PAUSE == 5
TIME_NONE == 0      \* datetime(MINYEAR, 1, 1): earlier than any clock reading
TIME_LAST == 1000   \* datetime(MAXYEAR, 12, 31): later than any clock reading
TD_MAX == 1000000   \* timedelta.max
TD_MIN == -1000000  \* timedelta.min

(***************************************************************************)
(* Python values that reach the option loop: command-line values are       *)
(* strings, JSON values are strings, integers, floats or null.  A float    *)
(* is kept in tenths (n = 25 is 2.5).                                      *)
(***************************************************************************)
PStr(s)  == [k |-> "str",   s |-> s,  n |-> 0]
PInt(n)  == [k |-> "int",   s |-> "", n |-> n]
PFlt(n)  == [k |-> "float", s |-> "", n |-> n]
PNone    == [k |-> "null",  s |-> "", n |-> 0]

\* bool(value): the test `not self.command`
Truthy(v) ==
    CASE v.k = "str"   -> v.s # ""
      [] v.k = "int"   -> v.n # 0
      [] v.k = "float" -> v.n # 0
      [] v.k = "null"  -> FALSE

\* the decimal literals among the strings of the model, with their values
IntLiteral(s) ==
    CASE s = "-1" -> <<-1>>
      [] s = "0"  -> <<0>>
      [] s = "1"  -> <<1>>
      [] s = "2"  -> <<2>>
      [] s = "3"  -> <<3>>
      [] OTHER    -> <<>>

\* int(value): a string is parsed, a float is truncated towards zero,
\* None raises TypeError, a string that is no integer literal ValueError
PyInt(v) ==
    CASE v.k = "int"   -> [res |-> "ok", n |-> v.n]
      [] v.k = "float" -> [res |-> "ok",
                           n |-> IF v.n >= 0 THEN v.n \div 10 ELSE -((-v.n) \div 10)]
      [] v.k = "str"   -> IF IntLiteral(v.s) # <<>>
                          THEN [res |-> "ok", n |-> IntLiteral(v.s)[1]]
                          ELSE [res |-> "ValueError", n |-> 0]
      [] v.k = "null"  -> [res |-> "TypeError", n |-> 0]

\* str.upper() on the option names and JSON keys of the model
Upper(s) ==
    CASE s = "command"  -> "COMMAND"
      [] s = "times"    -> "TIMES"
      [] s = "Seconds"  -> "SECONDS"
      [] s = "parallel" -> "PARALLEL"
      [] s = "-c"       -> "-C"
      [] s = "-n"       -> "-N"
      [] s = "-w"       -> "-W"
      [] s = "-p"       -> "-P"
      [] s = "-h"       -> "-H"
      [] s = "--help"   -> "--HELP"
      [] s = "comment"  -> "COMMENT"
      [] OTHER          -> s

\* subprocess.run(command, shell=True) raises before any child exists when
\* the command is not a string (TypeError) or holds a NUL (ValueError)
NulCommand == "echo<NUL>b"
PopenRaises(v) == v.k # "str" \/ v.s = NulCommand

(***************************************************************************)
(* getopt(cmdl_params, "c:n:w:ph", ["help"])                               *)
(***************************************************************************)
DashTokens   == {"-c", "-n", "-w", "-p", "-h", "-x", "--help", "--he", "--", "-1"}
ShortWithArg == {"-c", "-n", "-w"}
ShortNoArg   == {"-p", "-h"}
LongHelp     == {"--help", "--he"}   \* an unambiguous prefix is accepted

Opt(o, v) == [opt |-> o, val |-> v]

RECURSIVE do_getopt(_, _)
do_getopt(os, rest) ==
    IF rest = <<>> \/ Head(rest) \notin DashTokens
    THEN [err |-> FALSE, opts |-> os, args |-> rest]
    ELSE LET tok == Head(rest)
             tl  == Tail(rest)
         IN  IF tok = "--" THEN [err |-> FALSE, opts |-> os, args |-> tl]
             ELSE IF tok \in LongHelp
                  THEN do_getopt(Append(os, Opt("--help", PStr(""))), tl)
             ELSE IF tok \in ShortWithArg
                  THEN IF tl = <<>>
                       THEN [err |-> TRUE, opts |-> <<>>, args |-> <<>>]
                       ELSE do_getopt(Append(os, Opt(tok, PStr(Head(tl)))), Tail(tl))
             ELSE IF tok \in ShortNoArg
                  THEN do_getopt(Append(os, Opt(tok, PStr(""))), tl)
             ELSE [err |-> TRUE, opts |-> <<>>, args |-> <<>>]

getopt(tokens) == do_getopt(<<>>, tokens)

(***************************************************************************)
(* The inputs: the command lines and the contents of the named file.       *)
(***************************************************************************)
OptItems ==
    { <<"-c", "echo a">>, <<"-c", "">>, <<"-n", "1">>, <<"-n", "0">>,
      <<"-n", "abc">>, <<"-w", "1">>, <<"-w", "-1">>, <<"-p">>, <<"-h">>,
      <<"--help">>, <<"-x">> }

RECURSIVE Flatten(_)
Flatten(ss) == IF ss = <<>> THEN <<>> ELSE Head(ss) \o Flatten(Tail(ss))

OptionLines == { Flatten(ss) : ss \in UNION { [1..m -> OptItems] : m \in 0..MaxOpts } }

FileName == "conf.json"

Dict(items) == [kind |-> "dict", items |-> items]
NoDict(kind) == [kind |-> kind, items |-> <<>>]

\* files whose keys give a configuration that execute() is explored for
RunFiles ==
    { Dict(<<Opt("COMMAND", PStr(c)), Opt("TIMES", PInt(t)), Opt("SECONDS", PInt(s))>> \o p) :
        c \in {"echo b", NulCommand}, t \in 1..MaxRuns, s \in 0..1,
        p \in {<<>>, <<Opt("PARALLEL", PStr("any_value"))>>} }

EdgeFiles ==
    { NoDict("missing"), NoDict("unreadable"), NoDict("badjson"), NoDict("array"),
      Dict(<<>>),
      Dict(<<Opt("COMMAND", PStr("echo b")), Opt("SECONDS", PInt(1))>>),
      Dict(<<Opt("TIMES", PInt(2))>>),
      Dict(<<Opt("COMMAND", PStr(""))>>),
      Dict(<<Opt("COMMAND", PNone), Opt("TIMES", PInt(1))>>),
      Dict(<<Opt("COMMAND", PInt(7)), Opt("TIMES", PInt(1))>>),
      Dict(<<Opt("COMMAND", PStr("echo b")), Opt("TIMES", PInt(0))>>),
      Dict(<<Opt("COMMAND", PStr("echo b")), Opt("SECONDS", PInt(-1))>>),
      Dict(<<Opt("COMMAND", PStr("echo b")), Opt("TIMES", PStr("abc"))>>),
      Dict(<<Opt("COMMAND", PStr("echo b")), Opt("TIMES", PNone)>>),
      Dict(<<Opt("COMMAND", PStr("echo b")), Opt("TIMES", PFlt(25)), Opt("SECONDS", PInt(0))>>),
      Dict(<<Opt("COMMAND", PStr("echo b")), Opt("TIMES", PStr("2")), Opt("SECONDS", PFlt(-5))>>),
      Dict(<<Opt("command", PStr("echo b")), Opt("times", PInt(1)), Opt("Seconds", PInt(0)),
             Opt("parallel", PNone)>>),
      Dict(<<Opt("-h", PInt(1)), Opt("COMMAND", PStr("echo b")), Opt("TIMES", PInt(1))>>),
      Dict(<<Opt("COMMAND", PStr("echo b")), Opt("TIMES", PInt(1)), Opt("comment", PStr("x")),
             Opt("-n", PInt(2))>>) }

Files == RunFiles \cup EdgeFiles

(***************************************************************************)
(* SPscript.__init__                                                       *)
(***************************************************************************)
Init ==
    /\ \E line \in OptionLines :
          \/ argv = line /\ file = NoDict("missing")
          \/ argv = line \o <<FileName>> /\ file \in Files
    /\ pc = "getopt"
    /\ opts = <<>> /\ args = <<>> /\ src = <<>>
    /\ fromFile = FALSE /\ helpOpt = FALSE
    /\ command = PStr("")
    /\ runs = DEFAULT_RUNS
    /\ pause = DEFAULT_PAUSE
    /\ mode_prl = FALSE
    /\ timings = <<>>
    /\ i = 0
    /\ run = <<>> /\ launched = <<>> /\ started = <<>>
    /\ now = 1 /\ wake = 0 /\ sleeps = 0
    /\ usage = FALSE
    /\ report = <<>>
    /\ exitcode = -1

\* exit(code): SystemExit is no Exception, nothing in the script catches it
Exit(code) == pc' = "exit" /\ exitcode' = code

IsHelp(o) == o.opt \in {"-h", "--help"}

\* lines 80-82: the options are parsed; nothing at all is a missing command
Getopt ==
    /\ pc = "getopt"
    /\ LET g == getopt(argv) IN
          /\ IF g.err
             THEN /\ Exit(2)
                  /\ UNCHANGED <<opts, args, src, helpOpt>>
             ELSE /\ opts' = g.opts /\ args' = g.args
                  /\ src' = IF g.args = <<>> THEN g.opts ELSE <<>>
                  /\ helpOpt' = (\E k \in 1..Len(g.opts) : IsHelp(g.opts[k]))
                  /\ IF g.opts = <<>> /\ g.args = <<>>
                     THEN Exit(2)
                     ELSE /\ pc' = IF g.args # <<>> THEN "file" ELSE "loop"
                          /\ UNCHANGED exitcode
    /\ UNCHANGED <<argv, file, fromFile, command, runs, pause, mode_prl, timings,
                   i, run, launched, started, now, wake, sleeps, usage, report>>

FileOptsMerged(cmdline, items) == cmdline \o items

\* line 99: the option list the loop runs over once the file is decoded
FileOpts(cmdline, items) == items

\* lines 83-99: a named file is read and decoded; json_data.items() of a
\* document that is no object raises AttributeError, which only the handler
\* of __main__ catches
ReadFile ==
    /\ pc = "file"
    /\ CASE file.kind \in {"missing", "unreadable", "badjson"} ->
               Exit(2) /\ UNCHANGED <<opts, src, fromFile>>
         [] file.kind = "array" ->
               Exit(1) /\ UNCHANGED <<opts, src, fromFile>>
         [] file.kind = "dict" ->
               /\ opts' = FileOpts(opts, file.items)
               /\ src' = opts'
               /\ fromFile' = TRUE
               /\ pc' = "loop"
               /\ UNCHANGED exitcode
    /\ UNCHANGED <<argv, file, args, helpOpt, command, runs, pause, mode_prl,
                   timings, i, run, launched, started, now, wake, sleeps,
                   usage, report>>

Cfg(c, r, p, m) == [command |-> c, runs |-> r, pause |-> p, mode_prl |-> m]

\* lines 101-109: one pass of the option loop over the pair o
ApplyOpt(cfg, o) ==
    LET n == PyInt(o.val)
        checked(c) == IF c.runs < 1 \/ c.pause < 0
                      THEN [st |-> "exit2", cfg |-> c]
                      ELSE [st |-> "ok", cfg |-> c]
        failed == [st |-> IF n.res = "TypeError" THEN "exit1" ELSE "exit2", cfg |-> cfg]
    IN  IF o.opt = "-c" \/ Upper(o.opt) = "COMMAND"
        THEN checked([cfg EXCEPT !.command = o.val])
        ELSE IF o.opt = "-n" \/ Upper(o.opt) = "TIMES"
        THEN IF n.res = "ok" THEN checked([cfg EXCEPT !.runs = n.n]) ELSE failed
        ELSE IF o.opt = "-w" \/ Upper(o.opt) = "SECONDS"
        THEN IF n.res = "ok" THEN checked([cfg EXCEPT !.pause = n.n]) ELSE failed
        ELSE IF o.opt = "-p" \/ Upper(o.opt) = "PARALLEL"
        THEN checked([cfg EXCEPT !.mode_prl = TRUE])
        ELSE IF IsHelp(o)
        THEN [st |-> "exit0", cfg |-> cfg]
        ELSE checked(cfg)

\* lines 100-115: the loop body for the next pair
OptStep ==
    /\ pc = "loop" /\ opts # <<>>
    /\ LET r == ApplyOpt(Cfg(command, runs, pause, mode_prl), Head(opts)) IN
          /\ command' = r.cfg.command /\ runs' = r.cfg.runs
          /\ pause' = r.cfg.pause /\ mode_prl' = r.cfg.mode_prl
          /\ opts' = Tail(opts)
          /\ usage' = (r.st = "exit0")
          /\ CASE r.st = "ok"    -> UNCHANGED <<pc, exitcode>>
               [] r.st = "exit0" -> Exit(0)
               [] r.st = "exit1" -> Exit(1)
               [] r.st = "exit2" -> Exit(2)
    /\ UNCHANGED <<argv, file, args, src, fromFile, helpOpt, timings, i, run,
                   launched, started, now, wake, sleeps, report>>

NoCommandUnchecked(v) == FALSE

\* line 116: the test that sends the script to no_command()
NoCommand(v) == ~Truthy(v)

Record(e, s, f, t) == [e_code |-> e, start |-> s, finish |-> f, time |-> t]

\* lines 116-128: after the loop, a missing command is fatal; otherwise the
\* records are allocated with their placeholder values and __init__ returns,
\* which ends the life of its parameter cmdl_params
InitDone ==
    /\ pc = "loop" /\ opts = <<>>
    /\ IF NoCommand(command)
       THEN Exit(2) /\ UNCHANGED <<timings, argv>>
       ELSE /\ timings' = [k \in 1..runs |-> Record(0, TIME_NONE, TIME_NONE, 0)]
            /\ argv' = <<>>
            /\ pc' = "execute"
            /\ UNCHANGED exitcode
    /\ UNCHANGED <<file, opts, args, src, fromFile, helpOpt, command,
                   runs, pause, mode_prl, i, run, launched, started, now, wake,
                   sleeps, usage, report>>

(***************************************************************************)
(* SPscript.run_command and SPscript.execute                               *)
(***************************************************************************)
ExitStatuses == {0, 1}      \* return codes of the child process

Slot(st, s, rc) == [st |-> st, start |-> s, rc |-> rc]

\* lines 157-165: the threads are created (not started) and the loop begins
ExecBegin ==
    /\ pc = "execute" /\ runs <= MaxRuns
    /\ run' = [k \in 1..runs |-> Slot("new", 0, 0)]
    /\ launched' = [k \in 1..runs |-> 0]
    /\ started' = [k \in 1..runs |-> 0]
    /\ i' = 0
    /\ pc' = "iter"
    /\ UNCHANGED <<argv, file, opts, args, src, fromFile, helpOpt, command,
                   runs, pause, mode_prl, timings, now, wake, sleeps, usage,
                   report, exitcode>>

\* line 168: threads[i].start()
ThreadStart ==
    /\ pc = "iter" /\ mode_prl
    /\ run' = [run EXCEPT ![i + 1].st = "ready"]
    /\ started' = [started EXCEPT ![i + 1] = now]
    /\ pc' = "after"
    /\ UNCHANGED <<argv, file, opts, args, src, fromFile, helpOpt, command,
                   runs, pause, mode_prl, timings, i, launched, now, wake,
                   sleeps, usage, report, exitcode>>

\* lines 135-142: run_command(k-1) reads the clock and launches the child.
\* It is called by the main flow (line 171) or is the body of thread k-1.
\* An exception of subprocess.run ends the thread, or in the main flow
\* reaches the handler of __main__ (lines 210-212).
RunBegin(k) ==
    /\ \/ ~mode_prl /\ pc = "iter" /\ k = i + 1
       \/ mode_prl /\ run[k].st = "ready"
    /\ IF PopenRaises(command)
       THEN /\ run' = [run EXCEPT ![k] = Slot("dead", now, 0)]
            /\ IF mode_prl THEN UNCHANGED <<pc, exitcode>> ELSE Exit(1)
            /\ UNCHANGED launched
       ELSE /\ run' = [run EXCEPT ![k] = Slot("child", now, 0)]
            /\ launched' = [launched EXCEPT ![k] = @ + 1]
            /\ pc' = IF mode_prl THEN pc ELSE "run"
            /\ UNCHANGED exitcode
    /\ UNCHANGED <<argv, file, opts, args, src, fromFile, helpOpt, command,
                   runs, pause, mode_prl, timings, i, started, now, wake,
                   sleeps, usage, report>>

\* lines 137-142: the child terminates and subprocess.run returns its status
ChildExit(k) ==
    /\ pc \in {"run", "after", "sleep", "iter", "join"}
    /\ run[k].st = "child"
    /\ \E rc \in ExitStatuses : run' = [run EXCEPT ![k].st = "exited", ![k].rc = rc]
    /\ UNCHANGED <<argv, file, pc, opts, args, src, fromFile, helpOpt, command,
                   runs, pause, mode_prl, timings, i, launched, started, now,
                   wake, sleeps, usage, report, exitcode>>

\* every thread writing the first record
SlotShared(k) == 1

\* lines 144-147 and 160: thread k is created with args = (k - 1,) and
\* run_command writes self.timings[iteration], the record of its own number
SlotOf(k) == k

\* run_command as it would be with subprocess.run(..., check=True)
RunEndChecked(k) ==
    /\ pc \in {"run", "after", "sleep", "iter", "join"}
    /\ run[k].st = "exited"
    /\ IF run[k].rc # 0
       THEN /\ run' = [run EXCEPT ![k].st = "dead"]
            /\ IF mode_prl THEN UNCHANGED <<pc, exitcode>> ELSE Exit(1)
            /\ UNCHANGED timings
       ELSE /\ timings' = [timings EXCEPT
                              ![SlotOf(k)] = Record(run[k].rc, run[k].start, now, now - run[k].start)]
            /\ run' = [run EXCEPT ![k].st = "done"]
            /\ pc' = IF mode_prl THEN pc ELSE "after"
            /\ UNCHANGED exitcode
    /\ UNCHANGED <<argv, file, opts, args, src, fromFile, helpOpt, command,
                   runs, pause, mode_prl, i, launched, started, now, wake,
                   sleeps, usage, report>>

\* lines 143-147: the clock is read again and the record of the iteration
\* is filled in
RunEnd(k) ==
    /\ pc \in {"run", "after", "sleep", "iter", "join"}
    /\ run[k].st = "exited"
    /\ timings' = [timings EXCEPT
                      ![SlotOf(k)] = Record(run[k].rc, run[k].start, now, now - run[k].start)]
    /\ run' = [run EXCEPT ![k].st = "done"]
    /\ pc' = IF mode_prl THEN pc ELSE "after"
    /\ UNCHANGED <<argv, file, opts, args, src, fromFile, helpOpt, command,
                   runs, pause, mode_prl, i, launched, started, now, wake,
                   sleeps, usage, report, exitcode>>

WakeTimeNoPause(clock, secs) == clock

\* line 174: the clock value that ends sleep(secs)
WakeTime(clock, secs) == clock + secs

\* the test of line 173 without its `+ 1`
MoreToComeAlways(idx, n) == idx < n

\* line 173: i + 1 < self.runs, another iteration follows iteration idx
MoreToCome(idx, n) == idx + 1 < n

\* the loop of execute() without the joins of lines 175-178
AfterIterationNoJoin(idx, n, prl) ==
    IF idx + 1 < n THEN "iter" ELSE "stats"

\* line 165: where the for loop goes after iteration idx of range(n)
AfterIteration(idx, n, prl) ==
    IF idx + 1 < n THEN "iter" ELSE IF prl THEN "join" ELSE "stats"

\* lines 173-174: sleep(self.pause) is entered when the test of line 173 holds
SleepBegin ==
    /\ pc = "after" /\ MoreToCome(i, runs)
    /\ wake' = WakeTime(now, pause)
    /\ sleeps' = sleeps + 1
    /\ pc' = "sleep"
    /\ UNCHANGED <<argv, file, opts, args, src, fromFile, helpOpt, command,
                   runs, pause, mode_prl, timings, i, run, launched, started,
                   now, usage, report, exitcode>>

SleptAtOnce(clock, until) == TRUE

\* sleep(secs) returns once at least secs seconds have passed
Slept(clock, until) == clock >= until

\* line 174 returns and the for loop takes its next step
SleepEnd ==
    /\ pc = "sleep" /\ Slept(now, wake)
    /\ wake' = 0
    /\ i' = IF i + 1 < runs THEN i + 1 ELSE i
    /\ pc' = AfterIteration(i, runs, mode_prl)
    /\ UNCHANGED <<argv, file, opts, args, src, fromFile, helpOpt, command,
                   runs, pause, mode_prl, timings, run, launched, started, now,
                   sleeps, usage, report, exitcode>>

\* lines 173 and 165: the test fails, nothing is slept and the for loop takes
\* its next step, which after the last iteration leaves the loop
LoopEnd ==
    /\ pc = "after" /\ ~MoreToCome(i, runs)
    /\ i' = IF i + 1 < runs THEN i + 1 ELSE i
    /\ pc' = AfterIteration(i, runs, mode_prl)
    /\ UNCHANGED <<argv, file, opts, args, src, fromFile, helpOpt, command,
                   runs, pause, mode_prl, timings, run, launched, started,
                   now, wake, sleeps, usage, report, exitcode>>

EndedOrNot(slot) == TRUE

\* Thread.join() returns when the thread has ended, normally or by an exception
Ended(slot) == slot.st \in {"done", "dead"}

\* lines 175-178: every thread is joined
Join ==
    /\ pc = "join"
    /\ \A k \in 1..runs : Ended(run[k])
    /\ pc' = "stats"
    /\ UNCHANGED <<argv, file, opts, args, src, fromFile, helpOpt, command,
                   runs, pause, mode_prl, timings, i, run, launched, started,
                   now, wake, sleeps, usage, report, exitcode>>

\* the pass with `error_cnt = 1` where the script has `error_cnt += 1`
RECURSIVE ScanFlag(_, _)
ScanFlag(acc, ts) ==
    IF ts = <<>> THEN acc
    ELSE LET t == Head(ts) IN
         ScanFlag([error_cnt  |-> IF t.e_code # 0 THEN 1 ELSE acc.error_cnt,
                   min_start  |-> IF t.start < acc.min_start THEN t.start ELSE acc.min_start,
                   max_finish |-> IF t.finish > acc.max_finish THEN t.finish ELSE acc.max_finish,
                   min_time   |-> IF t.time < acc.min_time THEN t.time ELSE acc.min_time,
                   max_time   |-> IF t.time > acc.max_time THEN t.time ELSE acc.max_time,
                   sum_time   |-> acc.sum_time + t.time],
                  Tail(ts))

\* lines 181-193: one pass over the records
RECURSIVE Scan(_, _)
Scan(acc, ts) ==
    IF ts = <<>> THEN acc
    ELSE LET t == Head(ts) IN
         Scan([error_cnt  |-> IF t.e_code # 0 THEN acc.error_cnt + 1 ELSE acc.error_cnt,
               min_start  |-> IF t.start < acc.min_start THEN t.start ELSE acc.min_start,
               max_finish |-> IF t.finish > acc.max_finish THEN t.finish ELSE acc.max_finish,
               min_time   |-> IF t.time < acc.min_time THEN t.time ELSE acc.min_time,
               max_time   |-> IF t.time > acc.max_time THEN t.time ELSE acc.max_time,
               sum_time   |-> acc.sum_time + t.time],
              Tail(ts))

\* sorted(): ascending insertion
RECURSIVE Insert(_, _)
Insert(x, sq) ==
    IF sq = <<>> THEN <<x>>
    ELSE IF x <= Head(sq) THEN <<x>> \o sq
    ELSE <<Head(sq)>> \o Insert(x, Tail(sq))

RECURSIVE Sorted(_)
Sorted(sq) == IF sq = <<>> THEN <<>> ELSE Insert(Head(sq), Sorted(Tail(sq)))

\* the element at mid_pos taken twice, without the mirrored index
Median2NoMirror(ts, n) ==
    LET times   == Sorted([k \in 1..Len(ts) |-> ts[k].time])
        mid_pos == n \div 2
    IN  times[mid_pos + 1] + times[mid_pos + 1]

\* lines 199-202: times[mid_pos] + times[~mid_pos], twice the printed median
\* (0-based index m is m + 1 here, index ~m = -m-1 is Len - m)
Median2(ts, n) ==
    LET times   == Sorted([k \in 1..Len(ts) |-> ts[k].time])
        mid_pos == n \div 2
    IN  times[mid_pos + 1] + times[Len(times) - mid_pos]

\* the statistics with the durations added up as the total time
StatsTotalSum(ts, n) ==
    LET acc == Scan([error_cnt |-> 0, min_start |-> TIME_LAST, max_finish |-> TIME_NONE,
                     min_time |-> TD_MAX, max_time |-> TD_MIN, sum_time |-> 0], ts)
    IN  [total_time |-> acc.sum_time,
         min_time   |-> acc.min_time,
         max_time   |-> acc.max_time,
         sum_time   |-> acc.sum_time,
         runs       |-> n,
         median2    |-> Median2(ts, n),
         error_cnt  |-> acc.error_cnt]

\* the statistics with the start values of min_time and max_time exchanged
StatsSwapped(ts, n) ==
    LET acc == Scan([error_cnt |-> 0, min_start |-> TIME_LAST, max_finish |-> TIME_NONE,
                     min_time |-> TD_MIN, max_time |-> TD_MAX, sum_time |-> 0], ts)
    IN  [total_time |-> acc.max_finish - acc.min_start,
         min_time   |-> acc.min_time,
         max_time   |-> acc.max_time,
         sum_time   |-> acc.sum_time,
         runs       |-> n,
         median2    |-> Median2(ts, n),
         error_cnt  |-> acc.error_cnt]

\* lines 181-204: the statistics; the average is kept as sum_time over runs
Stats(ts, n) ==
    LET acc == Scan([error_cnt |-> 0, min_start |-> TIME_LAST, max_finish |-> TIME_NONE,
                     min_time |-> TD_MAX, max_time |-> TD_MIN, sum_time |-> 0], ts)
    IN  [total_time |-> acc.max_finish - acc.min_start,
         min_time   |-> acc.min_time,
         max_time   |-> acc.max_time,
         sum_time   |-> acc.sum_time,
         runs       |-> n,
         median2    |-> Median2(ts, n),
         error_cnt  |-> acc.error_cnt]

\* lines 181-204 and 213: the report is printed and the script exits with 0
Aggregate ==
    /\ pc = "stats"
    /\ report' = <<Stats(timings, runs)>>
    /\ Exit(0)
    /\ UNCHANGED <<argv, file, opts, args, src, fromFile, helpOpt, command,
                   runs, pause, mode_prl, timings, i, run, launched, started,
                   now, wake, sleeps, usage>>

\* time passes while execute() is at work; a sleep that has begun always
\* sees its wake time come
Tick ==
    /\ pc \in {"iter", "run", "after", "sleep", "join"}
    /\ now < MaxTime \/ (pc = "sleep" /\ now < wake)
    /\ now' = now + 1
    /\ UNCHANGED <<argv, file, pc, opts, args, src, fromFile, helpOpt, command,
                   runs, pause, mode_prl, timings, i, run, launched, started,
                   wake, sleeps, usage, report, exitcode>>

Next ==
    \/ Getopt \/ ReadFile \/ OptStep \/ InitDone
    \/ ExecBegin \/ ThreadStart
    \/ (\E k \in 1..Len(run) : RunBegin(k))
    \/ (\E k \in 1..Len(run) : ChildExit(k))
    \/ (\E k \in 1..Len(run) : RunEnd(k))
    \/ SleepBegin \/ SleepEnd \/ LoopEnd \/ Join \/ Aggregate
    \/ Tick

Spec == Init /\ [][Next]_vars

(***************************************************************************)
(* The script under fair scheduling: the interpreter goes on with the main *)
(* flow and with every started thread, the clock goes on, and every child  *)
(* process that subprocess.run has launched terminates.                    *)
(***************************************************************************)
MainFlow ==
    \/ Getopt \/ ReadFile \/ OptStep \/ InitDone
    \/ ExecBegin \/ ThreadStart
    \/ SleepBegin \/ SleepEnd \/ LoopEnd \/ Join \/ Aggregate

ChildrenTerminate ==
    \A k \in 1..MaxRuns : WF_vars(k <= Len(run) /\ ChildExit(k))

Scheduling ==
    /\ WF_vars(MainFlow)
    /\ WF_vars(Tick)
    /\ \A k \in 1..MaxRuns : WF_vars(k <= Len(run) /\ RunBegin(k))
    /\ \A k \in 1..MaxRuns : WF_vars(k <= Len(run) /\ RunEnd(k))

\* the script started as `sptest.py conf.json` with a file that names a
\* command, a number of runs, a pause and a mode; it is started late in the
\* range of the clock, which from then on advances once at any moment and
\* for as long as a sleep needs it
InitLive ==
    /\ argv = <<FileName>> /\ file \in RunFiles
    /\ pc = "getopt"
    /\ opts = <<>> /\ args = <<>> /\ src = <<>>
    /\ fromFile = FALSE /\ helpOpt = FALSE
    /\ command = PStr("")
    /\ runs = DEFAULT_RUNS
    /\ pause = DEFAULT_PAUSE
    /\ mode_prl = FALSE
    /\ timings = <<>>
    /\ i = 0
    /\ run = <<>> /\ launched = <<>> /\ started = <<>>
    /\ now = MaxTime - 1 /\ wake = 0 /\ sleeps = 0
    /\ usage = FALSE
    /\ report = <<>>
    /\ exitcode = -1

SpecLive == InitLive /\ [][Next]_vars /\ Scheduling /\ ChildrenTerminate

(***************************************************************************)
(* The statistics on their own: execute() at line 181 with any list of     *)
(* records of up to MaxLen runs, as parallel runs started together leave   *)
(* it.                                                                     *)
(***************************************************************************)
DurationLists == UNION { [1..n -> 0..MaxDur] : n \in 1..MaxLen }

InitStats ==
    /\ \E ds \in DurationLists :
          /\ timings = [k \in 1..Len(ds) |-> Record(0, 1, 1 + ds[k], ds[k])]
          /\ runs = Len(ds)
          /\ run = [k \in 1..Len(ds) |-> Slot("done", 1, 0)]
          /\ launched = [k \in 1..Len(ds) |-> 1]
          /\ started = [k \in 1..Len(ds) |-> 1]
          /\ i = Len(ds) - 1
    /\ pc = "stats"
    /\ argv = <<>> /\ file = NoDict("missing")
    /\ opts = <<>> /\ args = <<>>
    /\ src = <<Opt("-c", PStr("echo a"))>>
    /\ fromFile = FALSE /\ helpOpt = FALSE
    /\ command = PStr("echo a")
    /\ pause = 0
    /\ mode_prl = TRUE
    /\ now = 1 + MaxDur /\ wake = 0 /\ sleeps = runs - 1
    /\ usage = FALSE
    /\ report = <<>>
    /\ exitcode = -1

NextStats == Aggregate

SpecStats == InitStats /\ [][NextStats]_vars

(***************************************************************************)
(* Configuration resolution                                                *)
(***************************************************************************)
Defaults == Cfg(PStr(""), DEFAULT_RUNS, DEFAULT_PAUSE, FALSE)

\* the option loop over a list of pairs, started from a configuration
RECURSIVE Loop(_, _)
Loop(cfg, items) ==
    IF items = <<>> THEN [st |-> "ok", cfg |-> cfg]
    ELSE LET r == ApplyOpt(cfg, Head(items)) IN
         IF r.st = "ok" THEN Loop(r.cfg, Tail(items)) ELSE r

ExitOf(st) == CASE st = "exit0" -> 0 [] st = "exit1" -> 1 [] st = "exit2" -> 2

Current == Cfg(command, runs, pause, mode_prl)

NoLaunch == \A k \in DOMAIN launched : launched[k] = 0

\* C1: once the named file has been read and decoded, the configuration the
\* option loop ends with, and the exit status of a loop that ends the
\* process, are those the keys of the file give from the built-in defaults
\* with no command-line option at all, whatever options stand on the
\* command line beside the file name.
C1_FileWins ==
    fromFile =>
        LET alone == Loop(Defaults, file.items) IN
        /\ (pc # "exit" /\ opts = <<>>) => (alone.st = "ok" /\ Current = alone.cfg)
        /\ (pc = "exit" /\ alone.st # "ok") => exitcode = ExitOf(alone.st)
        /\ (pc = "exit" /\ alone.st = "ok") => Current = alone.cfg

\* the example of the specification, with options -c 'echo a' -n 1
C1_Witness ==
    /\ fromFile /\ pc = "loop" /\ opts = <<>>
    /\ argv = <<"-c", "echo a", "-n", "1", FileName>>
    /\ Current = Cfg(PStr("echo b"), 8, 1, FALSE)

\* C2: when the parser recognises -h or --help among the options of the
\* command line, the command is never launched, and the process ends with
\* status 0 after printing the usage text.
C2_HelpShortCircuits ==
    helpOpt => /\ NoLaunch
               /\ pc = "exit" => (exitcode = 0 /\ usage)

IsTimes(o)   == o.opt = "-n" \/ Upper(o.opt) = "TIMES"
IsSeconds(o) == o.opt = "-w" \/ Upper(o.opt) = "SECONDS"

\* the value is an integer, written as a number or as its decimal text
IsInteger(v) ==
    \/ v.k = "int"
    \/ v.k = "str" /\ IntLiteral(v.s) # <<>>
    \/ v.k = "float" /\ v.n % 10 = 0

BadNumber(o) ==
    \/ (IsTimes(o) \/ IsSeconds(o)) /\ ~IsInteger(o.val)
    \/ IsTimes(o)   /\ IsInteger(o.val) /\ PyInt(o.val).n < 1
    \/ IsSeconds(o) /\ IsInteger(o.val) /\ PyInt(o.val).n < 0

\* C3: when the source the configuration is taken from (the options, or the
\* items of the decoded file) gives iterations or pauseSeconds a value that
\* is no integer, or an iterations < 1, or a pauseSeconds < 0, and asks for
\* no help, the command is never launched and the process ends with status 2.
C3_BadNumberIsFatal ==
    (/\ \E k \in 1..Len(src) : BadNumber(src[k])
     /\ \A k \in 1..Len(src) : ~IsHelp(src[k]))
    => /\ NoLaunch
       /\ pc \in {"file", "loop", "exit"}
       /\ pc = "exit" => exitcode = 2

\* C4: when a file is named and it is missing, unreadable or does not decode
\* to a key/value document, the option loop is never entered, the command
\* is never launched and the process ends with status 2.
C4_BadFileIsFatal ==
    (args # <<>> /\ file.kind # "dict")
    => /\ NoLaunch
       /\ pc \in {"file", "exit"}
       /\ pc = "exit" => exitcode = 2

\* C5: a command line with neither options nor a file name ends the process
\* with status 2; so does an option loop that ends with an empty or absent
\* command; and in a process that ends with status 2 no run was started.
C5_NoCommandIsFatal ==
    [][ /\ (pc = "getopt" /\ argv = <<>>) => (pc' = "exit" /\ exitcode' = 2)
        /\ (pc = "loop" /\ opts = <<>> /\ ~Truthy(command))
              => (pc' = "exit" /\ exitcode' = 2)
        /\ (exitcode' = 2) => (run' = <<>> /\ NoLaunch') ]_vars

\* the file holds TIMES only: the loop ends well, the command is absent
C5_Witness ==
    /\ pc = "exit" /\ exitcode = 2 /\ fromFile /\ opts = <<>>
    /\ command = PStr("") /\ runs = 2 /\ run = <<>>

(***************************************************************************)
(* Execution                                                               *)
(***************************************************************************)
Aggregating == pc = "stats" \/ report # <<>>

Written(k) == /\ run[k].st = "done"
              /\ timings[k].e_code = run[k].rc
              /\ timings[k].start = run[k].start

\* C6: when execution reaches the statistics, there are exactly `runs`
\* records, the command was launched exactly once for every index, and
\* every record was filled in by the run of its index.
C6_EveryRunRecorded ==
    Aggregating => /\ Len(timings) = runs
                   /\ \A k \in 1..runs : launched[k] = 1 /\ Written(k)

\* C7: in sequential mode the recorded start of an iteration is no earlier
\* than the recorded finish of the one before it plus the pause, and at
\* most one child is running at any time.
C7_SequentialPause ==
    (~mode_prl /\ run # <<>>) =>
        /\ \A k \in 1..(runs - 1) :
              run[k + 1].st = "done" =>
                  timings[k + 1].start >= timings[k].finish + pause
        /\ Cardinality({k \in 1..runs : run[k].st = "child"}) <= 1

\* two runs with a pause of 1, the second begun as early as the pause allows
C7_Witness ==
    /\ ~mode_prl /\ runs = 2 /\ pause = 1
    /\ run # <<>> /\ run[1].st = "done" /\ run[2].st = "done"
    /\ timings[2].start = timings[1].finish + 1

\* C8: in parallel mode the threads are started in index order from
\* iteration 0, and each one no earlier than the pause after the start of
\* the one before it, whether or not that one has finished.
C8_ParallelStagger ==
    (mode_prl /\ run # <<>>) =>
        /\ \A k \in 1..runs :
              run[k].st # "new" => \A j \in 1..(k - 1) : run[j].st # "new"
        /\ \A k \in 1..(runs - 1) :
              run[k + 1].st # "new" => started[k + 1] >= started[k] + pause

\* the second thread was started one pause after the first and has already
\* finished while the child of the first is still running
C8_Witness ==
    /\ mode_prl /\ runs = 2 /\ pause = 1 /\ run # <<>>
    /\ started[2] = started[1] + 1
    /\ run[1].st = "child" /\ run[2].st = "done"

\* C9: in parallel mode the statistics are not computed while a started
\* thread is still alive, that is before it has ended by writing its record
\* or by an exception.
C9_JoinBeforeStats ==
    (mode_prl /\ Aggregating) =>
        \A k \in 1..runs : run[k].st \in {"done", "dead"}

\* the first thread wrote its record only after the last one was started
C9_Witness ==
    /\ mode_prl /\ pc = "stats" /\ runs = 2
    /\ run[1].st = "done" /\ run[2].st = "done"
    /\ timings[1].finish > started[2]

\* C10: once a child has returned a non-zero status, the status a finished
\* run has stored is the one its child returned, and the process ends only
\* with status 0, after every index was launched and its record written.
C10_FailureDoesNotAbort ==
    (run # <<>> /\ \E k \in 1..runs : run[k].rc # 0) =>
        /\ \A k \in 1..runs : run[k].st = "done" => timings[k].e_code = run[k].rc
        /\ pc = "exit" => /\ exitcode = 0
                          /\ Len(timings) = runs
                          /\ \A k \in 1..runs : launched[k] = 1 /\ Written(k)

\* a failing first run followed by a successful second one
C10_Witness ==
    /\ pc = "exit" /\ exitcode = 0 /\ runs = 2 /\ run # <<>>
    /\ run[1].rc = 1 /\ run[2].rc = 0
    /\ timings[1].e_code = 1 /\ timings[2].e_code = 0

(***************************************************************************)
(* Internal failures                                                       *)
(***************************************************************************)
\* C11: a process in which an exception other than the expected
\* configuration errors was raised - by json_data.items(), by int(), or by
\* subprocess.run in a run of either mode - ends with status 1.
C11_FailureExitsWithOne ==
    (/\ pc = "exit"
     /\ \/ \E k \in 1..Len(run) : run[k].st = "dead"
        \/ args # <<>> /\ file.kind = "array"
        \/ \E k \in 1..Len(src) :
              (IsTimes(src[k]) \/ IsSeconds(src[k])) /\ PyInt(src[k].val).res = "TypeError")
    => exitcode = 1

\* C19: when the statistics are computed, no record is still the
\* placeholder of __init__ that its run never replaced.
C19_NoPlaceholderRead ==
    Aggregating =>
        \A k \in 1..Len(timings) :
            ~(run[k].st # "done" /\ timings[k] = Record(0, TIME_NONE, TIME_NONE, 0))

\* the keys of a JSON file that the documentation gives a meaning to
FileKeys == {"COMMAND", "TIMES", "SECONDS", "PARALLEL"}

RECURSIVE Known(_)
Known(items) ==
    IF items = <<>> THEN <<>>
    ELSE IF Upper(Head(items).opt) \in FileKeys
         THEN <<Head(items)>> \o Known(Tail(items))
         ELSE Known(Tail(items))

\* C20: with a decoded file, the configuration the option loop ends with and
\* the exit status of a loop that ends the process are those given by the
\* items whose key is COMMAND, TIMES, SECONDS or PARALLEL in any letter
\* case; every other item is without effect.
C20_OtherKeysIgnored ==
    fromFile =>
        LET known == Loop(Defaults, Known(file.items)) IN
        /\ (pc # "exit" /\ opts = <<>>) => (known.st = "ok" /\ Current = known.cfg)
        /\ (pc = "exit" /\ known.st # "ok") => exitcode = ExitOf(known.st)
        /\ (pc = "exit" /\ known.st = "ok") => (~usage /\ Current = known.cfg)

(***************************************************************************)
(* Statistics                                                              *)
(***************************************************************************)
Durations == [k \in 1..Len(timings) |-> timings[k].time]

\* the k-th smallest element of ds, by counting
Kth(ds, k) ==
    CHOOSE x \in {ds[j] : j \in 1..Len(ds)} :
        /\ Cardinality({j \in 1..Len(ds) : ds[j] < x}) < k
        /\ k <= Cardinality({j \in 1..Len(ds) : ds[j] <= x})

\* twice the conventional median
ConventionalMedian2(ds) ==
    LET n == Len(ds) IN
    IF n % 2 = 1 THEN 2 * Kth(ds, (n + 1) \div 2)
    ELSE Kth(ds, n \div 2) + Kth(ds, n \div 2 + 1)

\* C12: the printed median is the conventional one: the middle element of
\* the ascending durations for an odd number of runs, the mean of the two
\* central ones for an even number (both sides are kept doubled).
C12_MedianIsConventional ==
    report # <<>> => report[1].median2 = ConventionalMedian2(Durations)

\* four runs whose two central durations differ
C12_Witness ==
    /\ report # <<>> /\ runs = 4
    /\ Durations = <<2, 0, 1, 2>>
    /\ report[1].median2 = 3

MinOf(ds) == CHOOSE x \in {ds[j] : j \in 1..Len(ds)} : \A j \in 1..Len(ds) : x <= ds[j]
MaxOf(ds) == CHOOSE x \in {ds[j] : j \in 1..Len(ds)} : \A j \in 1..Len(ds) : x >= ds[j]

\* C15: fastest and slowest are the least and the greatest duration, and
\* both the average (sum_time / runs) and the median lie between them.
C15_StatsOrdered ==
    report # <<>> =>
        LET r == report[1] IN
        /\ r.min_time = MinOf(Durations) /\ r.max_time = MaxOf(Durations)
        /\ r.min_time * r.runs <= r.sum_time /\ r.sum_time <= r.max_time * r.runs
        /\ 2 * r.min_time <= r.median2 /\ r.median2 <= 2 * r.max_time

\* three runs of different durations
C15_Witness ==
    /\ report # <<>> /\ runs = 3
    /\ Durations = <<0, 2, 1>>
    /\ report[1].min_time = 0 /\ report[1].max_time = 2 /\ report[1].sum_time = 3

\* C13: the printed total time is the latest finish of all records minus
\* the earliest start of all records.
C13_TotalIsSpan ==
    report # <<>> =>
        report[1].total_time =
            MaxOf([k \in 1..Len(timings) |-> timings[k].finish])
              - MinOf([k \in 1..Len(timings) |-> timings[k].start])

\* two parallel runs that overlap: the span is shorter than the durations
\* added up
C13_Witness ==
    /\ report # <<>> /\ mode_prl /\ runs = 2
    /\ run[1].st = "done" /\ run[2].st = "done"
    /\ report[1].total_time < report[1].sum_time

\* C14: the error count is the number of records with a non-zero exit
\* status.
C14_ErrorCount ==
    report # <<>> =>
        report[1].error_cnt =
            Cardinality({k \in 1..Len(timings) : timings[k].e_code # 0})

\* one failing and one successful run, counted as one error
C14_Witness ==
    /\ report # <<>> /\ runs = 2 /\ run # <<>>
    /\ run[1].rc = 0 /\ run[2].rc = 1
    /\ report[1].error_cnt = 1

\* C16: one batch sleeps runs - 1 times, once after every iteration but the
\* last: a sleep is only ever entered while another iteration is to come,
\* the number of sleeps follows the loop index, and once the loop is left
\* it is runs - 1, which is none at all for a single run.
C16_PausesBetweenRuns ==
    /\ pc = "sleep" => (i + 1 < runs /\ sleeps = i + 1)
    /\ pc \in {"iter", "run", "after"} => sleeps = i
    /\ (pc \in {"join", "stats"} \/ report # <<>>) => sleeps = runs - 1
    /\ runs = 1 => sleeps = 0

\* a finished batch of two runs that slept its pause of one second once
C16_Witness ==
    /\ report # <<>> /\ pc = "exit"
    /\ runs = 2 /\ pause = 1 /\ sleeps = 1

\* C17: in parallel mode a record changes only in the step in which the
\* thread of the same number finishes run_command, and until that thread has
\* finished its record still holds the placeholder values: no thread writes
\* the record of another, and no record is written by two threads.
C17_OwnSlotOnly ==
    /\ [](mode_prl =>
            \A j \in 1..Len(run) :
                run[j].st # "done" => timings[j] = Record(0, TIME_NONE, TIME_NONE, 0))
    /\ [][mode_prl =>
            \A j \in 1..Len(timings) :
                (j <= Len(timings') /\ timings'[j] # timings[j])
                    => (j <= Len(run) /\ run[j].st = "exited" /\ run'[j].st = "done")]_vars

\* the second thread has written its record while the child of the first
\* is still running and the first record is untouched
C17_Witness ==
    /\ mode_prl /\ runs = 2 /\ Len(run) = 2
    /\ run[1].st = "child" /\ run[2].st = "done"
    /\ timings[2] # Record(0, TIME_NONE, TIME_NONE, 0)
    /\ timings[1] = Record(0, TIME_NONE, TIME_NONE, 0)

\* C18: when every launched child terminates, a batch that has launched a
\* child goes on to print its statistics and to return with status 0, in
\* both modes. Nothing but its own termination takes a run out of waiting
\* for its child, and the statistics are never reached while a child is
\* still running: a child that never terminates keeps its run unfinished
\* and the join of the parallel mode waiting.
C18_TerminatesIffChildrenDo ==
    /\ (\E k \in 1..Len(launched) : launched[k] > 0)
          ~> (pc = "exit" /\ exitcode = 0 /\ report # <<>>)
    /\ [](Aggregating => \A k \in 1..Len(run) : run[k].st # "child")
    /\ [][\A k \in 1..Len(run) :
            (run[k].st = "child" /\ k <= Len(run') /\ run'[k].st # "child")
                => run'[k].st = "exited"]_vars

\* a batch of two runs whose children have all terminated has returned
C18_Witness ==
    /\ pc = "exit" /\ exitcode = 0 /\ report # <<>>
    /\ Len(run) = 2
    /\ \A k \in 1..2 : launched[k] = 1 /\ run[k].st = "done"

====
